---- MODULE Spec2Model ----
(***************************************************************************)
(* vstface: a command-line tool that loads a VST3 bundle, opens the        *)
(* plug-in editor in a host window and saves a PNG screenshot.             *)
(*                                                                         *)
(* The model follows one process: main() -> ScreenshotHost::capturePlugin  *)
(* -> EditorHostRunner::open (modern path) or captureWithLegacyHost        *)
(* (legacy path) -> captureWindowToFile.  What the plug-in, the embedded   *)
(* EditorHost application and the operating system answer is chosen        *)
(* nondeterministically at the step where the code asks.                   *)
(***************************************************************************)
EXTENDS Integers, Sequences, FiniteSets, TLC

(***************************************************************************)
(* Bounds                                                                  *)
(***************************************************************************)
MaxClasses == 2     \* classes in a generated bundle's factory
MaxArgc == 4        \* argc of the command line (program name included)
MaxDim == 1         \* integer width/height of the content view's bounds
MaxRunnerOps == 3   \* direct EditorHostRunner::open / close calls in a row
MaxCallbacks == 3   \* IComponentHandler callbacks made by the plug-in
MaxParamId == 1     \* ParamID values the plug-in passes
MaxWindowSize == 6  \* width/height a plug-in editor asks for
MaxScreenDim == 5   \* width/height of the screen's visible frame
MaxResizes == 2     \* resizeView calls a plug-in makes during attached()
MaxEdge == 3        \* right and bottom edge of a ViewRect

(***************************************************************************)
(* Program constants                                                       *)
(***************************************************************************)
kVstAudioEffectClass == "Audio Module Class"
kVstComponentControllerClass == "Component Controller Class"
kPluginName == "VSTFace Static Fixture"
kControllerName == "VSTFace Static Fixture Controller"
kProcessorUID == "8116D9237B7E425B9C8C084F09F6123A"
kControllerUID == "9348CF095F2F4DD4B51903638B6F9A5E"

\* the 8-byte PNG signature 89 50 4E 47 0D 0A 1A 0A
PngSignature == <<137, 80, 78, 71, 13, 10, 26, 10>>
\* first eight bytes of the dummy file "This is not a PNG"
DummyHeader == <<84, 104, 105, 115, 32, 105, 115, 32>>

(***************************************************************************)
(* Bundles: what Module::create and the factory's classInfos() deliver     *)
(***************************************************************************)
\* the two classes the fixture's factory exports, in definition order
FixtureClasses ==
  << [category |-> kVstAudioEffectClass, name |-> kPluginName,
      ID |-> kProcessorUID],
     [category |-> kVstComponentControllerClass, name |-> kControllerName,
      ID |-> kControllerUID] >>

FixtureBundle == [loadable |-> TRUE, fixture |-> TRUE, classes |-> FixtureClasses]

\* a path that is no bundle at all, or an empty directory named *.vst3
InvalidBundle == [loadable |-> FALSE, fixture |-> FALSE, classes |-> <<>>]

UidNames == <<"uid1", "uid2", "uid3", "uid4">>
Categories == {kVstAudioEffectClass, kVstComponentControllerClass}
ClassNames == {"Fx", "fx"}

\* class lists of other plug-ins: every list of up to MaxClasses classes
GeneratedClassLists ==
  UNION { { [i \in 1..n |-> [category |-> c[i], name |-> m[i], ID |-> UidNames[i]]] :
              c \in [1..n -> Categories], m \in [1..n -> ClassNames] } :
          n \in 0..MaxClasses }

Bundles ==
  {FixtureBundle, InvalidBundle} \cup
  { [loadable |-> TRUE, fixture |-> FALSE, classes |-> cl] : cl \in GeneratedClassLists }

Filters == {"", "Fx", kPluginName, kControllerName, "NonExistentClass"}

(***************************************************************************)
(* The output path                                                         *)
(***************************************************************************)
AbsentFile == [exists |-> FALSE, header |-> <<>>, origin |-> "none"]
DummyFile == [exists |-> TRUE, header |-> DummyHeader, origin |-> "before"]
OldPngFile == [exists |-> TRUE, header |-> PngSignature, origin |-> "before"]
InitialFiles == {AbsentFile, DummyFile, OldPngFile}

\* NSBitmapImageRep representationUsingType:NSBitmapImageFileTypePNG
EncodedPng == [exists |-> TRUE, header |-> PngSignature, origin |-> "capture"]

IsCompletePng(f) == f.exists /\ f.header = PngSignature


(***************************************************************************)
(* State                                                                   *)
(***************************************************************************)
VARIABLES
  pc,              \* position of the process in main / capturePlugin
  caller,          \* "cli": main() called capturePlugin; "api": a direct call
  argc,            \* main's argc
  usagePrinted,    \* a line containing "Usage" was written to stderr
  exitStatus,      \* main's return value, -1 while running
  captureCalls,    \* number of capturePlugin calls made
  bundle,          \* the plug-in bundle at pluginBundle
  filter,          \* opts.classNameFilter
  classUid,        \* std::optional<std::string>: << >> or << uid >>
  hostError,       \* the errorMessage EditorHostRunner::open reported
  chosenInfo,      \* legacy path: the selected class, << >> or << info >>
  runner,          \* EditorHostRunner's fields, TRUE = non-null
  platform,        \* EmbeddedPlatform singleton: application, activeWindow
  appState,        \* the embedded application: "idle", "initialized", "terminated"
  ehWindow,        \* the NSWindow the embedded application created
  legacyWindow,    \* the NSWindow captureWithLegacyHost created
  pluginContext,   \* PluginContextFactory's context is non-null
  componentHandler,\* the controller holds the component handler of this call
  plugFrame,       \* the editor view holds the plug frame of this call
  viewAttached,    \* the editor view is attached to the legacy content view
  captured,        \* the local bool holding captureWindowToFile's result
  capEnv,          \* what the OS answered inside captureWindowToFile
  bitmapSource,    \* where the bitmap came from
  outFileBefore,   \* the output path when capturePlugin was called
  outFile,         \* the output path now
  writeAttempts,   \* writeToFile calls made on the output path
  result,          \* capturePlugin's return value (valid once returned)
  log,             \* the calls made so far, in order
  initArgs,        \* the argument vector of the last application->init call
  opHistory,       \* direct EditorHostRunner calls made so far, with outcome
  lastInit,        \* what init did in the last open, << >> if not called
  callbacks,       \* IComponentHandler callbacks the plug-in made so far
  lastResult,      \* the tresult of the last callback, "none" before any
  madeWindow,      \* the window the EditorHost platform made: sizes asked, got
  capArgs,         \* a direct captureWindowToFile call: which arguments were nil
  framePc,         \* where the host is between creating and dropping a plug frame
  frameWindow,     \* ScreenshotPlugFrame::window (__weak) is non-nil
  contentSize,     \* the content size of the plug frame's window
  mainQueue,       \* blocks dispatch_async'ed to the main queue, oldest first
  applied,         \* the sizes the blocks run so far have set, in order
  reportedSize,    \* what getSize reported after the attachment, << >> if nothing
  sizeAtCapture,   \* the content size when the bitmap was taken
  lastRect,        \* the ViewRect of the last resizeView call, << >> for null
  frameResult      \* the tresult of the last resizeView call

vars == << pc, caller, argc, usagePrinted, exitStatus, captureCalls, bundle,
           filter, classUid, hostError, chosenInfo, runner, platform, appState,
           ehWindow, legacyWindow, pluginContext, componentHandler, plugFrame,
           viewAttached, captured, capEnv, bitmapSource, outFileBefore, outFile,
           writeAttempts, result, log, initArgs, opHistory, lastInit,
           callbacks, lastResult, madeWindow, capArgs, framePc, frameWindow,
           contentSize, mainQueue, applied, reportedSize, sizeAtCapture,
           lastRect, frameResult >>

cliVars == << caller, argc, usagePrinted, exitStatus, captureCalls >>
inputVars == << bundle, filter, outFileBefore >>
modernVars == << runner, platform, appState, ehWindow, hostError, initArgs,
                 lastInit >>
legacyVars == << chosenInfo, legacyWindow, pluginContext, componentHandler,
                 plugFrame, viewAttached >>
captureVars == << captured, capEnv, bitmapSource, outFile, writeAttempts >>
handlerVars == << callbacks, lastResult >>
frameVars == << framePc, frameWindow, contentSize, mainQueue, applied,
                reportedSize, sizeAtCapture, lastRect, frameResult >>
pureVars == << madeWindow, capArgs, frameVars >>
harnessVars == << opHistory, handlerVars, pureVars >>

NullRunner == [activeWindow |-> FALSE, nsWindow |-> FALSE, nsContentView |-> FALSE]
NoCapEnv == [symbol |-> FALSE, image |-> FALSE, caching |-> FALSE,
             width |-> 0, height |-> 0, alloc |-> FALSE, encode |-> FALSE,
             write |-> FALSE]

Returned == pc \in {"returned", "exit"} /\ captureCalls > 0


(***************************************************************************)
(* Class resolution                                                        *)
(***************************************************************************)
\* the loop of resolveClassFilterToUid, from class i on
RECURSIVE ResolveFrom(_, _, _, _)
ResolveFrom(classes, className, i, outUid) ==
  IF i > Len(classes) THEN [ok |-> FALSE, outUid |-> outUid]
  ELSE IF classes[i].category # kVstAudioEffectClass
       THEN ResolveFrom(classes, className, i + 1, outUid)
  ELSE IF classes[i].name = className
       THEN [ok |-> TRUE, outUid |-> << classes[i].ID >>]
  ELSE ResolveFrom(classes, className, i + 1, outUid)

\* a resolution that does not skip the non-audio-effect classes
RECURSIVE ResolveAnyCategoryFrom(_, _, _, _)
ResolveAnyCategoryFrom(classes, className, i, outUid) ==
  IF i > Len(classes) THEN [ok |-> FALSE, outUid |-> outUid]
  ELSE IF classes[i].name = className
       THEN [ok |-> TRUE, outUid |-> << classes[i].ID >>]
  ELSE ResolveAnyCategoryFrom(classes, className, i + 1, outUid)

resolveClassFilterToUid_AnyCategory(pluginBundle, className, outUid) ==
  IF ~pluginBundle.loadable THEN [ok |-> FALSE, outUid |-> outUid]
  ELSE ResolveAnyCategoryFrom(pluginBundle.classes, className, 1, outUid)

\* a resolution whose loop does not stop at the first match
RECURSIVE ResolveLastFrom(_, _, _, _, _)
ResolveLastFrom(classes, className, i, outUid, ok) ==
  IF i > Len(classes) THEN [ok |-> ok, outUid |-> outUid]
  ELSE IF classes[i].category = kVstAudioEffectClass /\ classes[i].name = className
       THEN ResolveLastFrom(classes, className, i + 1, << classes[i].ID >>, TRUE)
  ELSE ResolveLastFrom(classes, className, i + 1, outUid, ok)

resolveClassFilterToUid_LastMatch(pluginBundle, className, outUid) ==
  IF ~pluginBundle.loadable THEN [ok |-> FALSE, outUid |-> outUid]
  ELSE ResolveLastFrom(pluginBundle.classes, className, 1, outUid, FALSE)

\* resolveClassFilterToUid: the return value and outUid afterwards
resolveClassFilterToUid(pluginBundle, className, outUid) ==
  IF ~pluginBundle.loadable THEN [ok |-> FALSE, outUid |-> outUid]
  ELSE ResolveFrom(pluginBundle.classes, className, 1, outUid)

\* a class selection that ignores the filter: the first audio-effect class
RECURSIVE SelectFrom_IgnoreFilter(_, _, _)
SelectFrom_IgnoreFilter(classes, classNameFilter, i) ==
  IF i > Len(classes) THEN [found |-> FALSE, chosenInfo |-> << >>]
  ELSE IF classes[i].category = kVstAudioEffectClass
       THEN [found |-> TRUE, chosenInfo |-> << classes[i] >>]
  ELSE SelectFrom_IgnoreFilter(classes, classNameFilter, i + 1)

\* the class-selection loop of captureWithLegacyHost, from class i on
RECURSIVE SelectFrom(_, _, _)
SelectFrom(classes, classNameFilter, i) ==
  IF i > Len(classes) THEN [found |-> FALSE, chosenInfo |-> << >>]
  ELSE IF classes[i].category = kVstAudioEffectClass
       THEN IF classNameFilter # "" /\ classes[i].name # classNameFilter
            THEN SelectFrom(classes, classNameFilter, i + 1)
            ELSE [found |-> TRUE, chosenInfo |-> << classes[i] >>]
  ELSE SelectFrom(classes, classNameFilter, i + 1)

(***************************************************************************)
(* The capture procedure                                                   *)
(***************************************************************************)
Dims == 0..MaxDim

\* what the OS can answer inside captureWindowToFile; an answer the code
\* never asks for is left at its default
CaptureEnvs ==
  { e \in [symbol : BOOLEAN, image : BOOLEAN, caching : BOOLEAN,
           width : Dims, height : Dims, alloc : BOOLEAN,
           encode : BOOLEAN, write : BOOLEAN] :
      LET snapshot == e.symbol /\ e.image
          asksBounds == ~snapshot /\ ~e.caching
          asksAlloc == asksBounds /\ e.width > 0 /\ e.height > 0
          hasRep == snapshot \/ e.caching \/ (asksAlloc /\ e.alloc)
      IN /\ (~e.symbol => ~e.image)
         /\ (snapshot => ~e.caching)
         /\ (~asksBounds => e.width = 0 /\ e.height = 0)
         /\ (~asksAlloc => ~e.alloc)
         /\ (~hasRep => ~e.encode)
         /\ (~e.encode => ~e.write) }

\* a capture procedure that reports a failed write as a failed capture
captureWindowToFile_WriteFailureFails(window, contentView, win, e, file) ==
  IF ~window \/ ~contentView
  THEN [result |-> FALSE, win |-> win, source |-> "none", file |-> file,
        writes |-> 0, calls |-> << >>]
  ELSE
    LET source == IF e.symbol /\ e.image THEN "snapshot"
                  ELSE IF e.caching THEN "caching"
                  ELSE IF e.width <= 0 \/ e.height <= 0 THEN "none"
                  ELSE IF ~e.alloc THEN "none"
                  ELSE "manual"
    IN [result |-> source # "none" /\ e.encode /\ e.write,
        win |-> "visible", source |-> source,
        file |-> IF source # "none" /\ e.encode /\ e.write THEN EncodedPng ELSE file,
        writes |-> IF source # "none" /\ e.encode THEN 1 ELSE 0,
        calls |-> << "activate", "makeKeyAndOrderFront", "displayIfNeeded",
                     "pumpRunLoop" >>]

\* a warm-up without the event-queue drain
WarmUp_NoDrain == << "activate", "makeKeyAndOrderFront", "displayIfNeeded" >>

\* captureWindowToFile: activateIgnoringOtherApps, makeKeyAndOrderFront,
\* displayIfNeeded, pumpRunLoop(0.5)
WarmUp == << "activate", "makeKeyAndOrderFront", "displayIfNeeded",
             "pumpRunLoop" >>

\* a capture procedure with no fallback behind the compositor snapshot
BitmapSource_SnapshotOnly(e) ==
  IF e.symbol /\ e.image THEN "snapshot" ELSE "none"

\* captureWindowToFile: where the bitmap comes from, "none" when the
\* procedure returns false for want of one
BitmapSource(e) ==
  IF e.symbol /\ e.image THEN "snapshot"
  ELSE IF e.caching THEN "caching"
  ELSE IF e.width <= 0 \/ e.height <= 0 THEN "none"
  ELSE IF ~e.alloc THEN "none"
  ELSE "manual"

\* the calls that take or render a bitmap
CaptureAttempts ==
  {"CGWindowListCreateImage", "bitmapImageRepForCachingDisplayInRect",
   "cacheDisplayInRect", "initWithBitmapDataPlanes",
   "displayRectIgnoringOpacity"}

\* captureWindowToFile: the bitmap calls it makes, in order
Attempts(e) ==
  (IF e.symbol THEN << "CGWindowListCreateImage" >> ELSE << >>)
  \o (IF e.symbol /\ e.image THEN << >>
      ELSE << "bitmapImageRepForCachingDisplayInRect" >>
           \o (IF e.caching THEN << "cacheDisplayInRect" >>
               ELSE IF e.width <= 0 \/ e.height <= 0 THEN << >>
               ELSE << "initWithBitmapDataPlanes" >>
                    \o (IF e.alloc THEN << "displayRectIgnoringOpacity" >>
                        ELSE << >>)))

\* captureWindowToFile(window, contentView, outputPng): the return value, the
\* window afterwards, the bitmap source, the file afterwards, the writes made
captureWindowToFile(window, contentView, win, e, file) ==
  IF ~window \/ ~contentView
  THEN [result |-> FALSE, win |-> win, source |-> "none", file |-> file,
        writes |-> 0, calls |-> << >>]
  ELSE
    LET source == BitmapSource(e)
        taken == WarmUp \o Attempts(e)
    IN IF source = "none"
       THEN [result |-> FALSE, win |-> "visible", source |-> "none",
             file |-> file, writes |-> 0, calls |-> taken]
       ELSE IF ~e.encode
       THEN \* pngData is nil: the message to nil answers NO
            [result |-> TRUE, win |-> "visible", source |-> source,
             file |-> file, writes |-> 0,
             calls |-> taken \o << "Failed to write PNG" >>]
       ELSE [result |-> TRUE, win |-> "visible", source |-> source,
             file |-> IF e.write THEN EncodedPng ELSE file,
             writes |-> 1,
             calls |-> taken \o << "writeToFile" >>
                       \o (IF e.write THEN << >>
                           ELSE << "Failed to write PNG" >>)]

(***************************************************************************)
(* EditorHostRunner and the embedded EditorHost application                *)
(***************************************************************************)
Host == [runner |-> runner, platform |-> platform, appState |-> appState,
         ehWindow |-> ehWindow, log |-> log, args |-> initArgs]

\* what the embedded application's init can do
InitOutcomes ==
  { [throws |-> TRUE, createsWindow |-> FALSE, shows |-> FALSE,
     nsView |-> FALSE, inWindow |-> FALSE, reason |-> "kill: reason"],
    [throws |-> TRUE, createsWindow |-> TRUE, shows |-> FALSE,
     nsView |-> TRUE, inWindow |-> TRUE, reason |-> "kill: reason"],
    [throws |-> TRUE, createsWindow |-> TRUE, shows |-> TRUE,
     nsView |-> TRUE, inWindow |-> TRUE, reason |-> "std::exception"],
    [throws |-> FALSE, createsWindow |-> FALSE, shows |-> FALSE,
     nsView |-> FALSE, inWindow |-> FALSE, reason |-> ""],
    [throws |-> FALSE, createsWindow |-> TRUE, shows |-> TRUE,
     nsView |-> FALSE, inWindow |-> FALSE, reason |-> ""],
    [throws |-> FALSE, createsWindow |-> TRUE, shows |-> TRUE,
     nsView |-> TRUE, inWindow |-> FALSE, reason |-> ""],
    [throws |-> FALSE, createsWindow |-> TRUE, shows |-> TRUE,
     nsView |-> TRUE, inWindow |-> TRUE, reason |-> ""] }

HasAudioEffectClass(b) ==
  \E i \in 1..Len(b.classes) : b.classes[i].category = kVstAudioEffectClass

\* the application does its own module loading and class selection: it
\* creates no window for a bundle it cannot load an audio-effect class from
InitOutcomesFor(b) ==
  { io \in InitOutcomes : io.createsWindow => (b.loadable /\ HasAudioEffectClass(b)) }

\* EmbeddedPlatform::createWindow: the created window is registered
createWindow(h, shown) ==
  [h EXCEPT !.platform.activeWindow = TRUE,
            !.ehWindow = IF shown THEN "visible" ELSE "created"]

\* IApplication::init of the embedded application
init(h, cmdArgs, io) ==
  LET h1 == [h EXCEPT !.appState = "initialized", !.log = Append(@, "init"),
                      !.args = cmdArgs]
  IN IF io.createsWindow THEN createWindow(h1, io.shows) ELSE h1

\* IApplication::terminate of the embedded application
terminate(h) ==
  [h EXCEPT !.appState = "terminated", !.log = Append(@, "terminate")]

\* EmbeddedPlatform::clearWindow
clearWindow(h) == [h EXCEPT !.platform.activeWindow = FALSE]

\* a cleanup that leaves the runner's fields as they are
cleanupOnFailure_FieldsKept(h) ==
  LET h1 == clearWindow(h)
  IN IF h1.platform.application THEN terminate(h1) ELSE h1

\* the cleanupOnFailure lambda of EditorHostRunner::open
cleanupOnFailure(h) ==
  LET h1 == [clearWindow(h) EXCEPT !.runner = NullRunner]
  IN IF h1.platform.application THEN terminate(h1) ELSE h1

\* a close without the early return for a runner that holds nothing
close_Unguarded(h) ==
  LET h1 == IF h.platform.application THEN terminate(h) ELSE h
      h2 == IF h1.runner.nsWindow
            THEN [h1 EXCEPT !.ehWindow = "closed",
                            !.log = @ \o << "orderOut", "close" >>]
            ELSE h1
  IN [clearWindow(h2) EXCEPT !.runner = NullRunner]

\* EditorHostRunner::close
close(h) ==
  IF ~h.runner.activeWindow /\ ~h.runner.nsWindow /\ ~h.runner.nsContentView
  THEN h
  ELSE
    LET h1 == IF h.platform.application THEN terminate(h) ELSE h
        h2 == IF h1.runner.nsWindow
              THEN [h1 EXCEPT !.ehWindow = "closed",
                              !.log = @ \o << "orderOut", "close" >>]
              ELSE h1
    IN [clearWindow(h2) EXCEPT !.runner = NullRunner]

\* the argument vector open builds for init: the uid is passed even when it
\* is the empty string
args_EmptyUidPassed(pluginBundle, effectUid) ==
  << "--componentHandler" >>
  \o (IF effectUid # << >> THEN << "--uid", effectUid[1] >> ELSE << >>)
  \o << pluginBundle >>

\* EditorHostRunner::open: std::vector<std::string> args
args(pluginBundle, effectUid) ==
  << "--componentHandler" >>
  \o (IF effectUid # << >> /\ effectUid[1] # ""
      THEN << "--uid", effectUid[1] >>
      ELSE << >>)
  \o << pluginBundle >>

\* the class of the exception init raised: the platform's kill throws an
\* EditorHostError, anything else the application raises is a std::exception
ThrownKind(io) ==
  IF io.reason = "kill: reason" THEN "EditorHostError" ELSE "std::exception"

\* an open that catches only the platform's kill
Caught_OnlyKill(io) == ThrownKind(io) = "EditorHostError"

\* EditorHostRunner::open: the two catch clauses around application->init
Caught(io) == ThrownKind(io) \in {"EditorHostError", "std::exception"}

\* EditorHostRunner::open after its close(): the host afterwards, the return
\* value, errorMessage, and whether an exception left open
openSession(h0, pluginBundle, effectUid, io) ==
  IF ~h0.platform.application
  THEN [h |-> h0, ok |-> FALSE, escaped |-> FALSE,
        error |-> "EditorHost application is not available"]
  ELSE
    LET h1 == init(h0, args(pluginBundle, effectUid), io)
    IN IF io.throws
       THEN IF Caught(io)
            THEN [h |-> cleanupOnFailure(h1), ok |-> FALSE, escaped |-> FALSE,
                  error |-> io.reason]
            ELSE [h |-> h1, ok |-> FALSE, escaped |-> TRUE, error |-> ""]
       ELSE
         LET h2 == [h1 EXCEPT !.runner.activeWindow = h1.platform.activeWindow]
         IN IF ~h2.runner.activeWindow
            THEN [h |-> cleanupOnFailure(h2), ok |-> FALSE, escaped |-> FALSE,
                  error |-> "EditorHost failed to create a window"]
            ELSE IF ~io.nsView
            THEN [h |-> cleanupOnFailure(h2), ok |-> FALSE, escaped |-> FALSE,
                  error |-> "EditorHost window does not expose an NSView"]
            ELSE
              LET h3 == [h2 EXCEPT !.runner.nsContentView = TRUE,
                                   !.runner.nsWindow = io.inWindow]
              IN IF ~h3.runner.nsWindow
                 THEN [h |-> cleanupOnFailure(h3), ok |-> FALSE,
                       escaped |-> FALSE,
                       error |-> "EditorHost view is missing an NSWindow"]
                 ELSE [h |-> h3, ok |-> TRUE, escaped |-> FALSE, error |-> ""]

\* an open that starts a new session without closing the one it holds
open_NoCloseFirst(h, pluginBundle, effectUid, io) ==
  openSession([h EXCEPT !.log = Append(@, "open")], pluginBundle, effectUid, io)

\* EditorHostRunner::open: close(), then the new session
open(h, pluginBundle, effectUid, io) ==
  openSession(close([h EXCEPT !.log = Append(@, "open")]), pluginBundle,
              effectUid, io)

\* the init outcome an open went through, << >> when init was not called
InitSeen(h, io) == IF h.platform.application THEN << io >> ELSE << >>

\* the host variables take the values of the record h
SetHost(h) ==
  /\ runner' = h.runner
  /\ platform' = h.platform
  /\ appState' = h.appState
  /\ ehWindow' = h.ehWindow
  /\ log' = h.log
  /\ initArgs' = h.args


(***************************************************************************)
(* Inputs                                                                  *)
(***************************************************************************)
\* (bundle, classNameFilter) pairs of direct capturePlugin calls
ApiCalls ==
  ({FixtureBundle} \X {"", kPluginName, kControllerName, "NonExistentClass"})
  \cup ((Bundles \ {FixtureBundle}) \X {"", "Fx", "NonExistentClass"})

\* pluginBundle.string(): the path the bundle was given by
BundlePath(b) ==
  IF b.fixture THEN "vstface_test_fixture.vst3"
  ELSE IF b.loadable THEN "plugin.vst3"
  ELSE "fake.vst3"

\* what a plug-in can answer to the legacy host; the fixture always succeeds
PluginAnswers(b) == IF b.fixture THEN {TRUE} ELSE BOOLEAN

Init ==
  /\ pc = "start"
  /\ caller = "none"
  /\ argc = 0
  /\ usagePrinted = FALSE
  /\ exitStatus = -1
  /\ captureCalls = 0
  /\ bundle = InvalidBundle
  /\ filter = ""
  /\ classUid = << >>
  /\ hostError = ""
  /\ chosenInfo = << >>
  /\ runner = NullRunner
  /\ platform \in [application : BOOLEAN, activeWindow : {FALSE}]
  /\ appState = "idle"
  /\ ehWindow = "none"
  /\ legacyWindow = "none"
  /\ pluginContext = FALSE
  /\ componentHandler = FALSE
  /\ plugFrame = FALSE
  /\ viewAttached = FALSE
  /\ captured = FALSE
  /\ capEnv = NoCapEnv
  /\ bitmapSource = "none"
  /\ outFile \in InitialFiles
  /\ outFileBefore = outFile
  /\ writeAttempts = 0
  /\ result = FALSE
  /\ log = << >>
  /\ initArgs = << >>
  /\ opHistory = << >>
  /\ lastInit = << >>
  /\ callbacks = << >>
  /\ lastResult = "none"
  /\ madeWindow = << >>
  /\ capArgs = << >>
  /\ framePc = "none"
  /\ frameWindow = FALSE
  /\ contentSize = << 0, 0 >>
  /\ mainQueue = << >>
  /\ applied = << >>
  /\ reportedSize = << >>
  /\ sizeAtCapture = << >>
  /\ lastRect = << >>
  /\ frameResult = "none"

(***************************************************************************)
(* main                                                                    *)
(***************************************************************************)
\* an argument check off by one: if (argc < 2)
UsageError_OffByOne(n) == n < 2

\* main: if (argc < 3)
UsageError(n) == n < 3

\* main: the status for capturePlugin's return value
StatusFor(ok) == IF ok THEN 0 ELSE 2

\* main up to the capturePlugin call (or the usage exit)
Main ==
  /\ pc = "start"
  /\ \E n \in 1..MaxArgc :
       /\ caller' = "cli"
       /\ argc' = n
       /\ IF UsageError(n)
          THEN /\ usagePrinted' = TRUE
               /\ exitStatus' = 1
               /\ pc' = "exit"
               /\ UNCHANGED << captureCalls, bundle, filter, outFileBefore >>
          ELSE /\ \E b \in Bundles : bundle' = b
               /\ filter' = ""
               /\ outFileBefore' = outFile
               /\ captureCalls' = captureCalls + 1
               /\ pc' = "capturePlugin"
               /\ UNCHANGED << usagePrinted, exitStatus >>
  /\ UNCHANGED << classUid, modernVars, legacyVars, captureVars, result, log,
                  harnessVars >>

\* main after capturePlugin returned
MainReturn ==
  /\ pc = "returned"
  /\ caller = "cli"
  /\ exitStatus' = StatusFor(result)
  /\ pc' = "exit"
  /\ UNCHANGED << caller, argc, usagePrinted, captureCalls, inputVars, classUid,
                  modernVars, legacyVars, captureVars, result, log,
                  harnessVars >>

\* a direct call of ScreenshotHost::capturePlugin with options
ApiCall ==
  /\ pc = "start"
  /\ \E c \in ApiCalls :
       /\ bundle' = c[1]
       /\ filter' = c[2]
  /\ caller' = "api"
  /\ outFileBefore' = outFile
  /\ captureCalls' = captureCalls + 1
  /\ pc' = "capturePlugin"
  /\ UNCHANGED << argc, usagePrinted, exitStatus, classUid, modernVars,
                  legacyVars, captureVars, result, log, harnessVars >>

(***************************************************************************)
(* ScreenshotHost::capturePlugin                                           *)
(***************************************************************************)
\* capturePlugin: is the class filter resolved at all
FilterSupplied(f) == f # ""

\* a capturePlugin that discards resolveClassFilterToUid's return value
ResolutionFailed_Ignored(r) == FALSE

\* capturePlugin: if (!resolveClassFilterToUid(...)) return false
ResolutionFailed(r) == ~r.ok

\* a capturePlugin that goes straight to the legacy host for a filtered call
FirstPath_LegacyWhenFiltered(f) == IF f # "" THEN "legacy" ELSE "modernOpen"

\* capturePlugin: the host path tried first
FirstPath(f) == "modernOpen"

\* capturePlugin: where control goes after runner.open
AfterOpen(ok) == IF ok THEN "modernCapture" ELSE "legacy"

\* capturePlugin: class resolution
CapturePluginResolve ==
  /\ pc = "capturePlugin"
  /\ IF FilterSupplied(filter)
     THEN LET r == resolveClassFilterToUid(bundle, filter, classUid)
          IN /\ classUid' = r.outUid
             /\ IF ResolutionFailed(r)
                THEN /\ result' = FALSE
                     /\ pc' = "returned"
                     /\ log' = log \o << "resolveClassFilterToUid", "resolve:false" >>
                ELSE /\ pc' = FirstPath(filter)
                     /\ log' = log \o << "resolveClassFilterToUid", "resolve:true" >>
                     /\ UNCHANGED result
     ELSE /\ pc' = FirstPath(filter)
          /\ UNCHANGED << classUid, result, log >>
  /\ UNCHANGED << harnessVars, cliVars, inputVars, modernVars, legacyVars,
                  captureVars >>

\* a capturePlugin that falls back to the legacy host when the modern
\* capture returned false
AfterModernCapture_FallBack(ok) == IF ok THEN "returned" ELSE "legacy"

\* capturePlugin: return captured; nothing follows the modern capture
AfterModernCapture(ok) == "returned"

\* capturePlugin: runner.open(pluginBundle, classUid, hostError)
ModernOpen ==
  /\ pc = "modernOpen"
  /\ \E io \in InitOutcomesFor(bundle) :
       LET r == open(Host, BundlePath(bundle), classUid, io)
       IN /\ SetHost([r.h EXCEPT !.log =
                        Append(@, IF r.escaped THEN "open:threw"
                                  ELSE IF r.ok THEN "open:true"
                                  ELSE "open:false")])
          /\ hostError' = r.error
          /\ lastInit' = InitSeen(Host, io)
          /\ pc' = IF r.escaped THEN "uncaught" ELSE AfterOpen(r.ok)
  /\ UNCHANGED << harnessVars, cliVars, inputVars, classUid, legacyVars,
                  captureVars, result >>

\* capturePlugin: the window check and captureWindowToFile on the modern path
ModernCapture ==
  /\ pc = "modernCapture"
  /\ IF ~runner.nsWindow \/ ~runner.nsContentView
     THEN /\ SetHost(close(Host))
          /\ result' = FALSE
          /\ pc' = "returned"
          /\ UNCHANGED captureVars
     ELSE \E e \in CaptureEnvs :
            LET r == captureWindowToFile(runner.nsWindow, runner.nsContentView,
                                         ehWindow, e, outFile)
            IN /\ captured' = r.result
               /\ capEnv' = e
               /\ bitmapSource' = r.source
               /\ outFile' = r.file
               /\ writeAttempts' = writeAttempts + r.writes
               /\ ehWindow' = r.win
               /\ log' = log \o << "captureWindowToFile" >> \o r.calls
               /\ pc' = "modernHide"
               /\ UNCHANGED << runner, platform, appState, initArgs, result >>
  /\ UNCHANGED << harnessVars, cliVars, inputVars, classUid, hostError,
                  lastInit, legacyVars >>

\* capturePlugin: [window orderOut:nil]; return captured; ~RunnerScopeGuard
ModernHide ==
  /\ pc = "modernHide"
  /\ SetHost(close([Host EXCEPT !.ehWindow = "hidden",
                                !.log = Append(@, "orderOut")]))
  /\ result' = captured
  /\ pc' = AfterModernCapture(captured)
  /\ UNCHANGED << harnessVars, cliVars, inputVars, classUid, hostError,
                  lastInit, legacyVars, captureVars >>


(***************************************************************************)
(* captureWithLegacyHost                                                   *)
(***************************************************************************)
\* a guard whose constructor does not set the context
guardEnter_NotSet(ctx) == ctx

\* PluginContextGuard's constructor: setPluginContext(ctx)
guardEnter(ctx) == TRUE

\* a guard without a destructor: the context stays as it was
guardExit_NoDestructor(ctx) == ctx

\* PluginContextGuard's destructor: setPluginContext(nullptr)
guardExit(ctx) == FALSE

\* what provider.initialize() and getControllerPtr() can give
ProviderOutcomes(b) ==
  IF b.fixture THEN {"ok"} ELSE {"initFailed", "noController", "ok"}

\* module load and class selection
LegacyLoad ==
  /\ pc = "legacy"
  /\ log' = Append(log, "captureWithLegacyHost")
  /\ IF ~bundle.loadable
     THEN /\ result' = FALSE
          /\ pc' = "returned"
          /\ UNCHANGED chosenInfo
     ELSE LET sel == SelectFrom(bundle.classes, filter, 1)
          IN IF ~sel.found
             THEN /\ result' = FALSE
                  /\ pc' = "returned"
                  /\ UNCHANGED chosenInfo
             ELSE /\ chosenInfo' = sel.chosenInfo
                  /\ pc' = "legacyGuard"
                  /\ UNCHANGED result
  /\ UNCHANGED << harnessVars, cliVars, inputVars, classUid, initArgs, lastInit,
                  runner, platform, appState,
                  ehWindow, hostError, legacyWindow, pluginContext,
                  componentHandler, plugFrame, viewAttached, captureVars >>

\* HostApplication hostApp; PluginContextGuard contextGuard(&hostApp)
LegacyGuard ==
  /\ pc = "legacyGuard"
  /\ pluginContext' = guardEnter(pluginContext)
  /\ log' = Append(log, "setPluginContext")
  /\ pc' = "legacyProvider"
  /\ UNCHANGED << harnessVars, cliVars, inputVars, classUid, initArgs, lastInit,
                  runner, platform, appState,
                  ehWindow, hostError, chosenInfo, legacyWindow,
                  componentHandler, plugFrame, viewAttached, captureVars, result >>

\* provider.initialize() and the controller check
LegacyProvider ==
  /\ pc = "legacyProvider"
  /\ \E o \in ProviderOutcomes(bundle) :
       IF o = "ok"
       THEN /\ pc' = "legacyView"
            /\ log' = Append(log, "initialize")
            /\ UNCHANGED << pluginContext, result >>
       ELSE /\ pluginContext' = guardExit(pluginContext)
            /\ result' = FALSE
            /\ pc' = "returned"
            /\ log' = log \o << "initialize", o, "setPluginContext(nullptr)" >>
  /\ UNCHANGED << harnessVars, cliVars, inputVars, classUid, initArgs, lastInit,
                  runner, platform, appState,
                  ehWindow, hostError, chosenInfo, legacyWindow,
                  componentHandler, plugFrame, viewAttached, captureVars >>

\* a legacy host that goes on to the window although there is no editor view
LegacyView_ContinuesWithoutView ==
  /\ pc = "legacyView"
  /\ componentHandler' = TRUE
  /\ \E hasView \in PluginAnswers(bundle) :
       /\ pc' = "legacyAttach"
       /\ log' = IF hasView
                 THEN log \o << "setComponentHandler", "createView" >>
                 ELSE log \o << "setComponentHandler", "createView",
                                "noEditorView" >>
       /\ UNCHANGED << pluginContext, result >>
  /\ UNCHANGED << harnessVars, cliVars, inputVars, classUid, initArgs, lastInit,
                  runner, platform, appState,
                  ehWindow, hostError, chosenInfo, legacyWindow, plugFrame,
                  viewAttached, captureVars >>

\* setComponentHandler(&componentHandler) and createView(kEditor)
LegacyView ==
  /\ pc = "legacyView"
  /\ componentHandler' = TRUE
  /\ \E hasView \in PluginAnswers(bundle) :
       IF hasView
       THEN /\ pc' = "legacyAttach"
            /\ log' = log \o << "setComponentHandler", "createView" >>
            /\ UNCHANGED << pluginContext, result >>
       ELSE /\ pluginContext' = guardExit(pluginContext)
            /\ result' = FALSE
            /\ pc' = "returned"
            /\ log' = log \o << "setComponentHandler", "createView",
                                "noEditorView", "setPluginContext(nullptr)" >>
  /\ UNCHANGED << harnessVars, cliVars, inputVars, classUid, initArgs, lastInit,
                  runner, platform, appState,
                  ehWindow, hostError, chosenInfo, legacyWindow, plugFrame,
                  viewAttached, captureVars >>

\* window creation, setFrame(&plugFrame), attached(), getSize()
LegacyAttach ==
  /\ pc = "legacyAttach"
  /\ legacyWindow' = "created"
  /\ plugFrame' = TRUE
  /\ \E attachOk \in PluginAnswers(bundle) :
       IF attachOk
       THEN /\ viewAttached' = TRUE
            /\ pc' = "legacyCapture"
            /\ log' = log \o << "initWithContentRect", "setFrame", "attached",
                                "getSize" >>
            /\ UNCHANGED << pluginContext, result >>
       ELSE /\ pluginContext' = guardExit(pluginContext)
            /\ result' = FALSE
            /\ pc' = "returned"
            /\ log' = log \o << "initWithContentRect", "setFrame", "attached",
                                "attachFailed", "setPluginContext(nullptr)" >>
            /\ UNCHANGED viewAttached
  /\ UNCHANGED << harnessVars, cliVars, inputVars, classUid, initArgs, lastInit,
                  runner, platform, appState,
                  ehWindow, hostError, chosenInfo, componentHandler, captureVars >>

\* bool result = captureWindowToFile(window, contentView, outputPng)
LegacyCapture ==
  /\ pc = "legacyCapture"
  /\ \E e \in CaptureEnvs :
       LET r == captureWindowToFile(legacyWindow # "none", legacyWindow # "none",
                                    legacyWindow, e, outFile)
       IN /\ captured' = r.result
          /\ capEnv' = e
          /\ bitmapSource' = r.source
          /\ outFile' = r.file
          /\ writeAttempts' = writeAttempts + r.writes
          /\ legacyWindow' = r.win
          /\ log' = log \o << "captureWindowToFile" >> \o r.calls
  /\ pc' = "legacyTeardown"
  /\ UNCHANGED << harnessVars, cliVars, inputVars, classUid, initArgs, lastInit,
                  runner, platform, appState,
                  ehWindow, hostError, chosenInfo, pluginContext,
                  componentHandler, plugFrame, viewAttached, result >>

\* a legacy host that returns at once when the capture failed
LegacyTeardown_SkipOnFailure ==
  /\ pc = "legacyTeardown"
  /\ IF captured
     THEN /\ viewAttached' = FALSE
          /\ plugFrame' = FALSE
          /\ componentHandler' = FALSE
          /\ legacyWindow' = "hidden"
          /\ log' = log \o << "removed", "setFrame(nullptr)",
                              "setComponentHandler(nullptr)", "orderOut",
                              "setPluginContext(nullptr)" >>
     ELSE /\ log' = Append(log, "setPluginContext(nullptr)")
          /\ UNCHANGED << viewAttached, plugFrame, componentHandler,
                          legacyWindow >>
  /\ pluginContext' = guardExit(pluginContext)
  /\ result' = captured
  /\ pc' = "returned"
  /\ UNCHANGED << harnessVars, cliVars, inputVars, classUid, initArgs,
                  lastInit, runner,
                  platform, appState, ehWindow, hostError, chosenInfo,
                  captureVars >>

\* a legacy host that detaches the view but leaves the window on screen
LegacyTeardown_WindowLeftVisible ==
  /\ pc = "legacyTeardown"
  /\ viewAttached' = FALSE
  /\ plugFrame' = FALSE
  /\ componentHandler' = FALSE
  /\ pluginContext' = guardExit(pluginContext)
  /\ result' = captured
  /\ pc' = "returned"
  /\ log' = log \o << "removed", "setFrame(nullptr)",
                      "setComponentHandler(nullptr)",
                      "setPluginContext(nullptr)" >>
  /\ UNCHANGED << harnessVars, cliVars, inputVars, classUid, initArgs,
                  lastInit, runner,
                  platform, appState, ehWindow, hostError, chosenInfo,
                  legacyWindow, captureVars >>

\* removed(), setFrame(nullptr), setComponentHandler(nullptr), orderOut, return
LegacyTeardown ==
  /\ pc = "legacyTeardown"
  /\ viewAttached' = FALSE
  /\ plugFrame' = FALSE
  /\ componentHandler' = FALSE
  /\ legacyWindow' = "hidden"
  /\ pluginContext' = guardExit(pluginContext)
  /\ result' = captured
  /\ pc' = "returned"
  /\ log' = log \o << "removed", "setFrame(nullptr)",
                      "setComponentHandler(nullptr)", "orderOut",
                      "setPluginContext(nullptr)" >>
  /\ UNCHANGED << harnessVars, cliVars, inputVars, classUid, initArgs, lastInit,
                  runner, platform, appState,
                  ehWindow, hostError, chosenInfo, captureVars >>

(***************************************************************************)
(* Specification                                                           *)
(***************************************************************************)
Next ==
  \/ Main
  \/ MainReturn
  \/ ApiCall
  \/ CapturePluginResolve
  \/ ModernOpen
  \/ ModernCapture
  \/ ModernHide
  \/ LegacyLoad
  \/ LegacyGuard
  \/ LegacyProvider
  \/ LegacyView
  \/ LegacyAttach
  \/ LegacyCapture
  \/ LegacyTeardown

Spec == Init /\ [][Next]_vars

(***************************************************************************)
(* EditorHostRunner used directly: open and close in any order             *)
(***************************************************************************)
\* the effectUid values a caller can pass to open
RunnerUids == {<< >>, << "" >>, << kProcessorUID >>}

\* the bundles a caller opens
RunnerBundles == {FixtureBundle, InvalidBundle}

\* runner.open(pluginBundle, effectUid, errorMessage)
RunnerOpen ==
  /\ pc = "start"
  /\ Len(opHistory) < MaxRunnerOps
  /\ \E b \in RunnerBundles, uid \in RunnerUids :
       \E io \in InitOutcomesFor(b) :
         LET r == open(Host, BundlePath(b), uid, io)
         IN /\ SetHost(r.h)
            /\ hostError' = IF r.ok THEN hostError ELSE r.error
            /\ lastInit' = InitSeen(Host, io)
            /\ bundle' = b
            /\ classUid' = uid
            /\ opHistory' = Append(opHistory,
                                   IF r.escaped THEN "open:threw"
                                   ELSE IF r.ok THEN "open:true"
                                   ELSE "open:false")
  /\ UNCHANGED << pc, cliVars, filter, outFileBefore, legacyVars, captureVars,
                  result, handlerVars, pureVars >>

\* runner.close()
RunnerClose ==
  /\ pc = "start"
  /\ Len(opHistory) < MaxRunnerOps
  /\ SetHost(close(Host))
  /\ opHistory' = Append(opHistory, "close")
  /\ UNCHANGED << pc, cliVars, inputVars, classUid, hostError, lastInit,
                  legacyVars, captureVars, result, handlerVars, pureVars >>

NextRunner ==
  \/ RunnerOpen
  \/ RunnerClose

SpecRunner == Init /\ [][NextRunner]_vars

(***************************************************************************)
(* ScreenshotComponentHandler called by a plug-in                          *)
(***************************************************************************)
kResultOk == "kResultOk"
kResultFalse == "kResultFalse"

ParamIDs == 0..MaxParamId
ParamValues == {"0.0", "0.5", "1.0"}
RestartFlags == {0, 1}

\* the callbacks made so far hold a beginEdit(id) that no endEdit(id) followed
RECURSIVE EditOpen(_, _, _)
EditOpen(history, id, n) ==
  IF n = 0 THEN FALSE
  ELSE IF history[n].id = id /\ history[n].method = "beginEdit" THEN TRUE
  ELSE IF history[n].id = id /\ history[n].method = "endEdit" THEN FALSE
  ELSE EditOpen(history, id, n - 1)

\* ScreenshotComponentHandler::beginEdit(ParamID)
beginEdit(history, id) == kResultOk

\* a handler that rejects performEdit outside a beginEdit/endEdit pair
performEdit_RequiresBeginEdit(history, id, value) ==
  IF EditOpen(history, id, Len(history)) THEN kResultOk ELSE kResultFalse

\* ScreenshotComponentHandler::performEdit(ParamID, ParamValue)
performEdit(history, id, value) == kResultOk

\* ScreenshotComponentHandler::endEdit(ParamID)
endEdit(history, id) == kResultOk

\* ScreenshotComponentHandler::restartComponent(int32)
restartComponent(history, flags) == kResultOk

\* the plug-in calls handler.beginEdit(id)
BeginEdit ==
  /\ Len(callbacks) < MaxCallbacks
  /\ \E id \in ParamIDs :
       /\ lastResult' = beginEdit(callbacks, id)
       /\ callbacks' = Append(callbacks, [method |-> "beginEdit", id |-> id])
  /\ UNCHANGED << pc, cliVars, inputVars, classUid, modernVars, legacyVars,
                  captureVars, result, log, opHistory, pureVars >>

\* the plug-in calls handler.performEdit(id, value)
PerformEdit ==
  /\ Len(callbacks) < MaxCallbacks
  /\ \E id \in ParamIDs, value \in ParamValues :
       /\ lastResult' = performEdit(callbacks, id, value)
       /\ callbacks' = Append(callbacks, [method |-> "performEdit", id |-> id])
  /\ UNCHANGED << pc, cliVars, inputVars, classUid, modernVars, legacyVars,
                  captureVars, result, log, opHistory, pureVars >>

\* the plug-in calls handler.endEdit(id)
EndEdit ==
  /\ Len(callbacks) < MaxCallbacks
  /\ \E id \in ParamIDs :
       /\ lastResult' = endEdit(callbacks, id)
       /\ callbacks' = Append(callbacks, [method |-> "endEdit", id |-> id])
  /\ UNCHANGED << pc, cliVars, inputVars, classUid, modernVars, legacyVars,
                  captureVars, result, log, opHistory, pureVars >>

\* the plug-in calls handler.restartComponent(flags)
RestartComponent ==
  /\ Len(callbacks) < MaxCallbacks
  /\ \E flags \in RestartFlags :
       /\ lastResult' = restartComponent(callbacks, flags)
       /\ callbacks' = Append(callbacks,
                              [method |-> "restartComponent", id |-> flags])
  /\ UNCHANGED << pc, cliVars, inputVars, classUid, modernVars, legacyVars,
                  captureVars, result, log, opHistory, pureVars >>

NextHandler ==
  \/ BeginEdit
  \/ PerformEdit
  \/ EndEdit
  \/ RestartComponent

SpecHandler == Init /\ [][NextHandler]_vars


(***************************************************************************)
(* captureWindowToFile called directly                                     *)
(***************************************************************************)
\* captureWindowToFile(window, contentView, outputPng) with either argument
\* nil or not
CaptureCall ==
  /\ capArgs = << >>
  /\ \E w \in BOOLEAN, v \in BOOLEAN, e \in CaptureEnvs :
       LET r == captureWindowToFile(w, v, "created", e, outFile)
       IN /\ capArgs' = << [window |-> w, contentView |-> v] >>
          /\ captured' = r.result
          /\ capEnv' = e
          /\ bitmapSource' = r.source
          /\ outFile' = r.file
          /\ writeAttempts' = writeAttempts + r.writes
          /\ log' = log \o << "captureWindowToFile" >> \o r.calls
  /\ UNCHANGED << pc, cliVars, inputVars, classUid, modernVars, legacyVars,
                  result, opHistory, handlerVars, madeWindow, frameVars >>

NextCapture == CaptureCall

SpecCapture == Init /\ [][NextCapture]_vars

(***************************************************************************)
(* The forked EditorHost's window creation: the screen constraint          *)
(***************************************************************************)
WindowSizes == 1..MaxWindowSize
ScreenDims == 4..MaxScreenDim

\* std::floor of a double product whose exact value is num/den: the rounded
\* product of an exact integer can fall just below it
FloorOfProduct(num, den) ==
  IF num % den = 0 THEN {num \div den, (num \div den) - 1}
  ELSE {num \div den}

\* a constraint that clamps each dimension on its own
ConstrainToScreen_PerDim(finalWidth, finalHeight, visibleWidth, visibleHeight) ==
  LET w == IF 20 * finalWidth > 19 * visibleWidth
           THEN (19 * visibleWidth) \div 20 ELSE finalWidth
      h == IF 20 * finalHeight > 19 * visibleHeight
           THEN (19 * visibleHeight) \div 20 ELSE finalHeight
  IN {<< w, h >>}

\* "Constrain to screen if necessary": the sizes the window can end with;
\* maxWidth = visibleWidth * 0.95 is 19 * visibleWidth / 20, and the
\* comparisons and the scale are done on numerators over common denominators
ConstrainToScreen(finalWidth, finalHeight, visibleWidth, visibleHeight) ==
  IF 20 * finalWidth > 19 * visibleWidth \/ 20 * finalHeight > 19 * visibleHeight
  THEN IF visibleWidth * finalHeight <= visibleHeight * finalWidth
       THEN \* scale = maxWidth / finalWidth
            FloorOfProduct(19 * visibleWidth, 20)
            \X FloorOfProduct(19 * visibleWidth * finalHeight, 20 * finalWidth)
       ELSE \* scale = maxHeight / finalHeight
            FloorOfProduct(19 * visibleHeight * finalWidth, 20 * finalHeight)
            \X FloorOfProduct(19 * visibleHeight, 20)
  ELSE {<< finalWidth, finalHeight >>}

\* the platform creates a window for an editor of some size on some screen
MakeWindow ==
  /\ madeWindow = << >>
  /\ \E w \in WindowSizes, h \in WindowSizes, sw \in ScreenDims,
        sh \in ScreenDims :
       \E f \in ConstrainToScreen(w, h, sw, sh) :
         madeWindow' = << [width |-> w, height |-> h, visibleWidth |-> sw,
                           visibleHeight |-> sh, finalWidth |-> f[1],
                           finalHeight |-> f[2]] >>
  /\ UNCHANGED << pc, cliVars, inputVars, classUid, modernVars, legacyVars,
                  captureVars, result, log, opHistory, handlerVars, capArgs,
                  frameVars >>

NextWindow == MakeWindow

SpecWindow == Init /\ [][NextWindow]_vars

(***************************************************************************)
(* ScreenshotPlugFrame and the main queue in captureWithLegacyHost         *)
(***************************************************************************)
kResultTrue == kResultOk

\* the ViewRects a plug-in passes to resizeView or fills in getSize
Rects ==
  [left : 0..1, top : 0..1, right : {MaxEdge}, bottom : {MaxEdge - 1, MaxEdge}]

\* a ViewRect pointer: << >> is the null pointer
RectArgs == {<< >>} \cup { << r >> : r \in Rects }

\* NSMakeRect(0, 0, opts.width, opts.height): larger than any ViewRect here
InitialSize == << MaxEdge + 1, MaxEdge + 1 >>

\* a resizeView that resizes the window before it returns
resizeView_Synchronous(window, newSize, queue, size) ==
  IF ~window \/ newSize = << >>
  THEN [queue |-> queue, contentSize |-> size, result |-> kResultFalse]
  ELSE [queue |-> queue,
        contentSize |-> << newSize[1].right - newSize[1].left,
                           newSize[1].bottom - newSize[1].top >>,
        result |-> kResultTrue]

\* ScreenshotPlugFrame::resizeView: window is the weak reference (FALSE once
\* the window is gone), queue the main dispatch queue, size the content size
resizeView(window, newSize, queue, size) ==
  IF ~window \/ newSize = << >>
  THEN [queue |-> queue, contentSize |-> size, result |-> kResultFalse]
  ELSE LET width == newSize[1].right - newSize[1].left
           height == newSize[1].bottom - newSize[1].top
       IN [queue |-> Append(queue, << width, height >>),
           contentSize |-> size,
           result |-> kResultTrue]

\* a main thread that never runs the queued blocks
ApplyQueued_Dropped(queue, size) == size

\* the main thread runs the queued [window setContentSize:size] blocks, first
\* in first out
RECURSIVE ApplyQueued(_, _)
ApplyQueued(queue, size) ==
  IF queue = << >> THEN size ELSE ApplyQueued(Tail(queue), Head(queue))

\* ScreenshotPlugFrame plugFrame(window); view->setFrame(&plugFrame), over
\* the window made by initWithContentRect or over a window that is gone
FrameCreate ==
  /\ framePc = "none"
  /\ \E live \in BOOLEAN :
       /\ frameWindow' = live
       /\ contentSize' = IF live THEN InitialSize ELSE << 0, 0 >>
       /\ framePc' = IF live THEN "attaching" ELSE "detached"
  /\ UNCHANGED << mainQueue, applied, reportedSize, sizeAtCapture, lastRect,
                  frameResult >>
  /\ UNCHANGED << pc, cliVars, inputVars, classUid, modernVars, legacyVars,
                  captureVars, result, log, opHistory, handlerVars, madeWindow,
                  capArgs >>

\* the plug-in calls resizeView while view->attached runs
PlugResizeView ==
  /\ framePc \in {"attaching", "detached"}
  /\ Len(mainQueue) < MaxResizes
  /\ \E newSize \in RectArgs :
       LET r == resizeView(frameWindow, newSize, mainQueue, contentSize)
       IN /\ mainQueue' = r.queue
          /\ contentSize' = r.contentSize
          /\ frameResult' = r.result
          /\ lastRect' = newSize
  /\ UNCHANGED << framePc, frameWindow, applied, reportedSize, sizeAtCapture >>
  /\ UNCHANGED << pc, cliVars, inputVars, classUid, modernVars, legacyVars,
                  captureVars, result, log, opHistory, handlerVars, madeWindow,
                  capArgs >>

\* view->attached returns; on failure captureWithLegacyHost returns at once
Attached ==
  /\ framePc = "attaching"
  /\ \E attachOk \in BOOLEAN :
       framePc' = IF attachOk THEN "attached" ELSE "failed"
  /\ UNCHANGED << frameWindow, contentSize, mainQueue, applied, reportedSize,
                  sizeAtCapture, lastRect, frameResult >>
  /\ UNCHANGED << pc, cliVars, inputVars, classUid, modernVars, legacyVars,
                  captureVars, result, log, opHistory, handlerVars, madeWindow,
                  capArgs >>

\* if (view->getSize(&vr) == kResultOk) [window setContentSize:...]
GetSize ==
  /\ framePc = "attached"
  /\ \E vr \in RectArgs :
       IF vr = << >>
       THEN UNCHANGED << contentSize, reportedSize >>
       ELSE LET size == << vr[1].right - vr[1].left, vr[1].bottom - vr[1].top >>
            IN /\ contentSize' = size
               /\ reportedSize' = << size >>
  /\ framePc' = "sized"
  /\ UNCHANGED << frameWindow, mainQueue, applied, sizeAtCapture, lastRect,
                  frameResult >>
  /\ UNCHANGED << pc, cliVars, inputVars, classUid, modernVars, legacyVars,
                  captureVars, result, log, opHistory, handlerVars, madeWindow,
                  capArgs >>

\* captureWindowToFile: pumpRunLoop(0.5) runs the main queue, then the bitmap
\* is taken from the window as it is
FrameCapture ==
  /\ framePc = "sized"
  /\ contentSize' = ApplyQueued(mainQueue, contentSize)
  /\ applied' = applied \o mainQueue
  /\ mainQueue' = << >>
  /\ sizeAtCapture' = << contentSize' >>
  /\ framePc' = "captured"
  /\ UNCHANGED << frameWindow, reportedSize, lastRect, frameResult >>
  /\ UNCHANGED << pc, cliVars, inputVars, classUid, modernVars, legacyVars,
                  captureVars, result, log, opHistory, handlerVars, madeWindow,
                  capArgs >>

\* removed, setFrame(nullptr), setComponentHandler(nullptr), orderOut
FrameTeardown ==
  /\ framePc = "captured"
  /\ framePc' = "done"
  /\ UNCHANGED << frameWindow, contentSize, mainQueue, applied, reportedSize,
                  sizeAtCapture, lastRect, frameResult >>
  /\ UNCHANGED << pc, cliVars, inputVars, classUid, modernVars, legacyVars,
                  captureVars, result, log, opHistory, handlerVars, madeWindow,
                  capArgs >>

NextFrame ==
  \/ FrameCreate
  \/ PlugResizeView
  \/ Attached
  \/ GetSize
  \/ FrameCapture
  \/ FrameTeardown

SpecFrame == Init /\ [][NextFrame]_vars

(***************************************************************************)
(* Properties                                                              *)
(***************************************************************************)
InLog(e) == \E i \in 1..Len(log) : log[i] = e

Before(a, i) == \E j \in 1..(i - 1) : log[j] = a

\* the indices of the audio-effect classes of the bundle named className
ExactMatches(b, className) ==
  { i \in 1..Len(b.classes) :
      /\ b.classes[i].category = kVstAudioEffectClass
      /\ b.classes[i].name = className }

\* the filter of this call cannot be resolved
Unresolvable ==
  filter # "" /\ (~bundle.loadable \/ ExactMatches(bundle, filter) = {})

InLegacyHost ==
  pc \in {"legacyProvider", "legacyView", "legacyAttach", "legacyCapture",
          "legacyTeardown"}

\* C1: in a capturePlugin call whose class resolution did not fail, the
\* modern host path (EditorHostRunner::open) is attempted first, with or
\* without a filter; captureWithLegacyHost is entered only after that open
\* returned false, and never after it returned true.
C1_ModernPathFirst ==
  /\ \A i \in 1..Len(log) :
       log[i] = "captureWithLegacyHost" =>
         /\ Before("open:false", i)
         /\ ~InLog("open:true")
  /\ \A i \in 1..Len(log) :
       log[i] \in {"captureWithLegacyHost", "captureWindowToFile",
                   "setPluginContext", "init"} => Before("open", i)
  /\ (captureCalls > 0 /\ ~Unresolvable /\ pc \notin {"capturePlugin", "modernOpen"})
       => InLog("open")

C1_Witness ==
  /\ pc = "legacyGuard"
  /\ filter # ""
  /\ InLog("open:false")

\* C2: when a non-empty filter cannot be resolved (the module does not load,
\* or no audio-effect class has that name) capturePlugin returns false
\* without calling EditorHostRunner::open or captureWithLegacyHost, creates
\* no window and does not write the output path.
C2_UnresolvedFilterAttemptsNothing ==
  (captureCalls > 0 /\ Unresolvable /\ pc # "capturePlugin") =>
    /\ pc \in {"returned", "exit"}
    /\ result = FALSE
    /\ ~InLog("open") /\ ~InLog("init") /\ ~InLog("captureWithLegacyHost")
    /\ ~InLog("captureWindowToFile")
    /\ ehWindow = "none" /\ legacyWindow = "none"
    /\ writeAttempts = 0 /\ outFile = outFileBefore

C2_Witness ==
  /\ pc = "returned"
  /\ bundle = FixtureBundle
  /\ filter = "NonExistentClass"
  /\ result = FALSE

\* a window that is not on screen: never shown, ordered out, or closed
HiddenOrDestroyed(w) == w \in {"none", "created", "hidden", "closed"}

ModernSessionOpen ==
  runner # NullRunner \/ platform.activeWindow \/ ~HiddenOrDestroyed(ehWindow)

LegacySessionOpen ==
  viewAttached \/ plugFrame \/ componentHandler \/ ~HiddenOrDestroyed(legacyWindow)

\* C3: at most one host session is open at any time, and when capturePlugin
\* returns, on every exit path, the session is closed: its window is hidden
\* or destroyed, the host application is terminated if the modern path
\* initialized it, and no component handler or plug frame installed by the
\* call is still registered with the plug-in.
C3_SessionClosedOnEveryExit ==
  /\ ~(ModernSessionOpen /\ LegacySessionOpen)
  /\ Returned =>
       /\ ~ModernSessionOpen
       /\ ~LegacySessionOpen
       /\ (InLog("init") => appState = "terminated")

\* C4: the process-wide plug-in context is non-null only inside
\* captureWithLegacyHost: it is set before the provider is initialized, stays
\* set until the function returns, and is null again after every return, so
\* it is null whenever capturePlugin has returned.
C4_PluginContextScoped ==
  /\ pluginContext <=> InLegacyHost
  /\ Returned => ~pluginContext
  /\ \A i \in 1..Len(log) : log[i] = "initialize" => Before("setPluginContext", i)

C4_Witness ==
  /\ pc = "returned"
  /\ InLog("attachFailed")
  /\ ~pluginContext

\* C5: when EditorHostRunner::open returns false after the embedded
\* application's init was invoked, every host resource has been released:
\* a window the application created is ordered out and closed, the
\* application is terminated, the platform's registered window is cleared
\* and the runner's fields are null.
C5_FailedOpenReleasesEverything ==
  (pc = "legacy" /\ InLog("init")) =>
    /\ ehWindow \in {"none", "closed"}
    /\ appState = "terminated"
    /\ ~platform.activeWindow
    /\ runner = NullRunner

\* C6: whenever capturePlugin returns true the output path holds the
\* complete PNG of this capture: it exists and begins with the PNG signature;
\* it is never missing or left as it was before the call.
C6_SuccessMeansCompletePng ==
  (Returned /\ result) =>
    /\ IsCompletePng(outFile)
    /\ outFile.origin = "capture"

\* C7: whenever capturePlugin returns false no write to the output path was
\* attempted during the call and the file is as it was before the call.
C7_FailureWritesNothing ==
  (Returned /\ ~result) =>
    /\ writeAttempts = 0
    /\ outFile = outFileBefore

C7_Witness ==
  /\ pc = "returned"
  /\ ~result
  /\ InLog("pumpRunLoop")
  /\ outFileBefore = DummyFile

\* C8: the exit status is a function of the argument count and the capture
\* result: with fewer than two positional arguments the status is 1, "Usage"
\* was printed and capturePlugin was not called; otherwise capturePlugin was
\* called exactly once and the status is 0 if it returned true, 2 if false.
C8_ExitStatus ==
  (pc = "exit") =>
    IF argc - 1 < 2
    THEN exitStatus = 1 /\ usagePrinted /\ captureCalls = 0
    ELSE /\ captureCalls = 1
         /\ ~usagePrinted
         /\ exitStatus = (IF result THEN 0 ELSE 2)

C8_Witness ==
  /\ pc = "exit"
  /\ argc = 3
  /\ exitStatus = 0

\* C9 as stated: capturing the fixture bundle with the filter equal to its
\* controller's declared name succeeds, and with an unrelated name fails and
\* creates no output file.
C9_ControllerNameFilterSucceeds ==
  (Returned /\ bundle = FixtureBundle) =>
    /\ (filter = kControllerName => result)
    /\ (filter = "NonExistentClass" => ~result /\ outFile = outFileBefore)

\* C9, amended: capturing the fixture bundle with the filter equal to its
\* audio-effect class's declared name resolves to that class, runs the
\* capture procedure, and succeeds whenever that procedure obtains a bitmap;
\* with its controller's declared name or an unrelated name the call fails
\* and leaves the output path as it was.
C9_EffectNameFilterSucceeds ==
  (Returned /\ bundle = FixtureBundle) =>
    /\ (filter = kPluginName =>
          /\ classUid = << kProcessorUID >>
          /\ InLog("captureWindowToFile")
          /\ result = (bitmapSource # "none"))
    /\ (filter \in {kControllerName, "NonExistentClass"} =>
          /\ ~result
          /\ writeAttempts = 0
          /\ outFile = outFileBefore)

C9_Witness ==
  /\ pc = "returned"
  /\ bundle = FixtureBundle
  /\ filter = kPluginName
  /\ result
  /\ outFile = EncodedPng

\* C10: for every class list of a loaded module and every filter name,
\* resolveClassFilterToUid returns true with outUid set to the identifier of
\* the first class, in enumeration order, that is an audio-effect class and
\* whose name equals the filter exactly; otherwise it returns false and
\* leaves outUid unset.
C10_ResolveFirstExactMatch ==
  (InLog("resolveClassFilterToUid") /\ bundle.loadable) =>
    LET m == ExactMatches(bundle, filter)
    IN IF m # {}
       THEN /\ InLog("resolve:true")
            /\ classUid =
                 << bundle.classes[CHOOSE i \in m : \A j \in m : i <= j].ID >>
       ELSE /\ InLog("resolve:false")
            /\ classUid = << >>

C10_Witness ==
  /\ InLog("resolve:true")
  /\ filter = "Fx"
  /\ Len(bundle.classes) = 2
  /\ bundle.classes[1].name = "Fx"
  /\ bundle.classes[1].category = kVstComponentControllerClass
  /\ classUid = << "uid2" >>

\* the number of times the call e was made
Count(e) == Cardinality({ i \in 1..Len(log) : log[i] = e })

\* the position of the last call e in the log, 0 when it was never made
LastAt(e) ==
  LET at == { i \in 1..Len(log) : log[i] = e }
  IN IF at = {} THEN 0 ELSE CHOOSE i \in at : \A j \in at : j <= i

\* the first audio-effect class of the bundle, << >> when it has none
FirstAudioEffect(b) ==
  LET idx == { i \in 1..Len(b.classes) :
                 b.classes[i].category = kVstAudioEffectClass }
  IN IF idx = {} THEN << >>
     ELSE << b.classes[CHOOSE i \in idx : \A j \in idx : i <= j] >>

\* C11: when the modern open failed and capturePlugin falls back, the legacy
\* host selects the class the resolution resolved: for every class list and
\* every non-empty filter that resolved, captureWithLegacyHost finds a class,
\* it carries the name of the filter and the identifier
\* resolveClassFilterToUid produced; with no filter it selects the first
\* audio-effect class in enumeration order.
C11_LegacySelectsResolvedClass ==
  /\ (InLog("captureWithLegacyHost") /\ pc # "legacy" /\ filter # ""
        /\ classUid # << >>) => chosenInfo # << >>
  /\ chosenInfo # << >> =>
       /\ chosenInfo[1].category = kVstAudioEffectClass
       /\ filter # "" =>
            /\ chosenInfo[1].name = filter
            /\ classUid = << chosenInfo[1].ID >>
       /\ filter = "" => chosenInfo = FirstAudioEffect(bundle)

\* the filter made the legacy host pass over an earlier audio-effect class
C11_Witness ==
  /\ chosenInfo # << >>
  /\ filter # ""
  /\ Len(bundle.classes) = 2
  /\ bundle.classes[1].category = kVstAudioEffectClass
  /\ chosenInfo[1] = bundle.classes[2]
  /\ classUid = << bundle.classes[2].ID >>

\* C12: there are no retries: in one capturePlugin call EditorHostRunner::open
\* is called at most once and captureWithLegacyHost at most once; once the
\* modern open succeeded the legacy path is never attempted, even if the
\* capture then returns false; and nothing is opened after the legacy path
\* was entered, whose failure is capturePlugin's false.
C12_NoRetries ==
  /\ Count("open") <= 1
  /\ Count("captureWithLegacyHost") <= 1
  /\ InLog("open:true") => ~InLog("captureWithLegacyHost")
  /\ \A i \in 1..Len(log) :
       log[i] = "captureWithLegacyHost" =>
         \A j \in (i + 1)..Len(log) : log[j] # "open"
  /\ (Returned /\ InLog("captureWithLegacyHost") /\ ~captured) => ~result

\* the modern open succeeded, its capture returned false, the call returned
C12_Witness ==
  /\ Returned
  /\ InLog("open:true")
  /\ InLog("pumpRunLoop")
  /\ ~captured
  /\ ~result

\* C13: in the legacy path, once the editor view is attached the teardown
\* runs before captureWithLegacyHost returns, whether the capture returned
\* true or false: the view is removed, its frame handler cleared, the
\* controller's component handler cleared and the window ordered out, in
\* that order and after the capture, and the function's result is the
\* capture's result.
C13_LegacyTeardownAlwaysRuns ==
  /\ viewAttached => pc \in {"legacyCapture", "legacyTeardown"}
  /\ (Returned /\ InLog("getSize")) =>
       /\ ~viewAttached
       /\ ~plugFrame
       /\ ~componentHandler
       /\ legacyWindow = "hidden"
       /\ result = captured
       /\ 0 < LastAt("captureWindowToFile")
       /\ LastAt("captureWindowToFile") < LastAt("removed")
       /\ LastAt("removed") < LastAt("setFrame(nullptr)")
       /\ LastAt("setFrame(nullptr)") < LastAt("setComponentHandler(nullptr)")
       /\ LastAt("setComponentHandler(nullptr)") < LastAt("orderOut")

\* an attached legacy capture that failed has returned
C13_Witness ==
  /\ Returned
  /\ InLog("getSize")
  /\ InLog("removed")
  /\ ~captured
  /\ ~result

\* C14: every captureWindowToFile call, which activates the application and
\* brings the window to the front, is followed by an orderOut of that window
\* before capturePlugin returns, on both host paths and for a true and a
\* false result, the early returns for invalid bounds or a failed bitmap
\* allocation included.
C14_CaptureFollowedByHide ==
  Returned =>
    /\ \A i \in 1..Len(log) :
         log[i] = "captureWindowToFile" =>
           \E j \in (i + 1)..Len(log) : log[j] = "orderOut"
    /\ (InLog("captureWindowToFile") /\ InLog("open:true")) =>
         ehWindow \in {"hidden", "closed"}
    /\ (InLog("captureWindowToFile") /\ ~InLog("open:true")) =>
         legacyWindow = "hidden"

\* a legacy capture that returned early for invalid bounds has returned
C14_Witness ==
  /\ Returned
  /\ InLog("captureWithLegacyHost")
  /\ InLog("makeKeyAndOrderFront")
  /\ ~capEnv.caching
  /\ capEnv.width = 0
  /\ ~result
  /\ legacyWindow = "hidden"

\* the runner holds nothing by its history: it was never opened, or its
\* last call was a close or an open that returned false
HoldsNothingByHistory ==
  \/ opHistory = << >>
  \/ opHistory[Len(opHistory)] \in {"close", "open:false"}

\* C15: EditorHostRunner::close is idempotent: called on a runner that was
\* never opened, a second time after a close, or after an open that returned
\* false, it does nothing at all (the application is not terminated again,
\* no window is ordered out or closed, the platform's registered window is
\* not touched) and leaves the runner's fields as they were.
C15_CloseIdempotent ==
  [][(RunnerClose /\ HoldsNothingByHistory) =>
       UNCHANGED << runner, platform, appState, ehWindow, log, initArgs >>]_vars

\* close was called after an open that had initialised the application and
\* then failed
C15_Witness ==
  /\ Len(opHistory) >= 2
  /\ opHistory[Len(opHistory)] = "close"
  /\ opHistory[Len(opHistory) - 1] = "open:false"
  /\ InLog("init")
  /\ runner = NullRunner

C17_OutputReplacedAtomically ==
  /\ outFile \in {outFileBefore, EncodedPng}
  /\ (Returned /\ result /\ outFileBefore = DummyFile) =>
       (outFile.exists /\ outFile.header = PngSignature)

\* C18: after any capturePlugin call has returned, true or false, the host
\* state that outlives the call is back to its initial empty value: the
\* platform singleton has no registered window, no plug-in context is set
\* and no window is visible.
C18_HostStateResetAfterReturn ==
  Returned =>
    /\ ~platform.activeWindow
    /\ ~pluginContext
    /\ ehWindow # "visible"
    /\ legacyWindow # "visible"

\* C19: the component handler acknowledges every callback unconditionally:
\* whatever the parameter id, value or flags and whatever callbacks came
\* before (an endEdit or performEdit with no beginEdit included), beginEdit,
\* performEdit, endEdit and restartComponent return kResultOk, and no
\* callback changes any state of the host.
C19_HandlerAcknowledgesEverything ==
  /\ lastResult \in {"none", kResultOk}
  /\ callbacks # << >> => lastResult = kResultOk
  /\ callbacks # << >> =>
       /\ log = << >>
       /\ runner = NullRunner
       /\ ~componentHandler
       /\ ~pluginContext
       /\ outFile = outFileBefore

\* endEdit and then performEdit were called with no beginEdit before them
C19_Witness ==
  /\ Len(callbacks) >= 2
  /\ callbacks[1].method = "endEdit"
  /\ callbacks[2].method = "performEdit"
  /\ callbacks[2].id = callbacks[1].id
  /\ lastResult = kResultOk

\* the effectUid of the last open is present and non-empty
UsableUid == classUid # << >> /\ classUid[1] # ""

\* C20: the argument list open passes to the application's init is exactly:
\* "--componentHandler" first; then "--uid" and the identifier if and only
\* if effectUid is present and non-empty; the bundle path last. It has 2
\* elements without a usable uid and 4 with one; an empty-string uid counts
\* as no uid.
C20_InitArguments ==
  InLog("init") =>
    /\ Len(initArgs) = IF UsableUid THEN 4 ELSE 2
    /\ initArgs[1] = "--componentHandler"
    /\ initArgs[Len(initArgs)] = BundlePath(bundle)
    /\ UsableUid => (initArgs[2] = "--uid" /\ initArgs[3] = classUid[1])

\* open was called with an empty-string uid and init got two arguments
C20_Witness ==
  /\ InLog("init")
  /\ classUid = << "" >>
  /\ initArgs = << "--componentHandler", BundlePath(bundle) >>

\* the outcome of the runner's last call, "none" before any
LastOp == IF opHistory = << >> THEN "none" ELSE opHistory[Len(opHistory)]

\* C21: EditorHostRunner::open returns true only if init completed without
\* throwing, the platform has a registered window, the window's native
\* handle is an NSView and the view belongs to an NSWindow, and then
\* window() and contentView() are both non-null. If init yielded no window
\* it fails with the no-window message, if the native handle is not an
\* NSView with the unsupported-window-type message; on every false return
\* errorMessage is set and window() and contentView() are null.
C21_OpenContract ==
  /\ LastOp = "open:true" =>
       /\ lastInit # << >>
       /\ ~lastInit[1].throws
       /\ lastInit[1].createsWindow
       /\ lastInit[1].nsView
       /\ lastInit[1].inWindow
       /\ platform.activeWindow
       /\ runner.nsWindow
       /\ runner.nsContentView
  /\ LastOp = "open:false" =>
       /\ hostError # ""
       /\ ~runner.nsWindow
       /\ ~runner.nsContentView
       /\ lastInit = << >> =>
            hostError = "EditorHost application is not available"
       /\ (lastInit # << >> /\ ~lastInit[1].throws) =>
            /\ ~lastInit[1].createsWindow =>
                 hostError = "EditorHost failed to create a window"
            /\ (lastInit[1].createsWindow /\ ~lastInit[1].nsView) =>
                 hostError = "EditorHost window does not expose an NSView"

\* an open failed after the view was recovered: the view has no NSWindow
C21_Witness ==
  /\ LastOp = "open:false"
  /\ lastInit # << >>
  /\ ~lastInit[1].throws
  /\ lastInit[1].nsView
  /\ ~lastInit[1].inWindow
  /\ hostError = "EditorHost view is missing an NSWindow"
  /\ runner = NullRunner

\* the runner's three fields are all set or all null, and they are set
\* exactly when its last call was an open that returned true
FieldsMoveTogether ==
  /\ runner.nsWindow = runner.nsContentView
  /\ runner.activeWindow = runner.nsWindow
  /\ runner.nsWindow = (LastOp = "open:true")

\* an open on a runner that holds a session terminates the application and
\* closes the old window before it initialises anything
OpenClosesHeldSession ==
  (RunnerOpen /\ runner.nsWindow) =>
     /\ Len(log') >= Len(log) + 5
     /\ log'[Len(log) + 1] = "open"
     /\ log'[Len(log) + 2] = "terminate"
     /\ log'[Len(log) + 3] = "orderOut"
     /\ log'[Len(log) + 4] = "close"
     /\ log'[Len(log) + 5] = "init"

\* C29: an EditorHostRunner holds at most one session and its three fields
\* move together: open first closes any session the runner holds
\* (terminating the application and closing the old window) before it
\* initialises a new one, and in every state reachable by open/close calls
\* window() is non-null iff contentView() is non-null iff the last open
\* returned true and close was not called since.
C29_OneSessionFieldsTogether ==
  [](FieldsMoveTogether) /\ [][OpenClosesHeldSession]_vars

\* a second open succeeded on a runner that held a session
C29_Witness ==
  /\ Len(opHistory) >= 2
  /\ opHistory[Len(opHistory)] = "open:true"
  /\ opHistory[Len(opHistory) - 1] = "open:true"
  /\ Count("close") = 1
  /\ runner.nsWindow

IsFloorOf(x, num, den) ==
  \/ x * den <= num /\ num < (x + 1) * den
  \/ (x + 1) * den = num

\* C22: in the forked EditorHost's window creation, for every requested size
\* and every visible screen frame, the final width is at most 95% of the
\* visible frame's width and the final height at most 95% of its height; a
\* size within both limits is left unchanged, and an oversized one is
\* scaled by the single factor min(maxWidth/width, maxHeight/height) and
\* floored, so both dimensions shrink by the same factor.
C22_ConstrainedToScreen ==
  madeWindow # << >> =>
    LET mw == madeWindow[1]
        within == /\ 20 * mw.width <= 19 * mw.visibleWidth
                  /\ 20 * mw.height <= 19 * mw.visibleHeight
        widthBound == mw.visibleWidth * mw.height <= mw.visibleHeight * mw.width
    IN /\ 20 * mw.finalWidth <= 19 * mw.visibleWidth
       /\ 20 * mw.finalHeight <= 19 * mw.visibleHeight
       /\ within => (mw.finalWidth = mw.width /\ mw.finalHeight = mw.height)
       /\ (~within /\ widthBound) =>
            /\ IsFloorOf(mw.finalWidth, 19 * mw.visibleWidth, 20)
            /\ IsFloorOf(mw.finalHeight, 19 * mw.visibleWidth * mw.height,
                         20 * mw.width)
       /\ (~within /\ ~widthBound) =>
            /\ IsFloorOf(mw.finalWidth, 19 * mw.visibleHeight * mw.width,
                         20 * mw.height)
            /\ IsFloorOf(mw.finalHeight, 19 * mw.visibleHeight, 20)

\* only the width was over its limit, and the height shrank with it
C22_Witness ==
  /\ madeWindow # << >>
  /\ 20 * madeWindow[1].width > 19 * madeWindow[1].visibleWidth
  /\ 20 * madeWindow[1].height <= 19 * madeWindow[1].visibleHeight
  /\ madeWindow[1].finalWidth < madeWindow[1].width
  /\ madeWindow[1].finalHeight < madeWindow[1].height

\* C23: in the capture procedure the bitmap is taken only after the whole
\* warm-up: for every captureWindowToFile call with a window and a view the
\* order is activate the application, make the window key and front, force
\* a redraw, drain the event queue (pumpRunLoop), and only then the
\* compositor snapshot or the view rendering; no bitmap call comes before
\* the drain.
C23_CaptureAfterWarmUp ==
  LET c == LastAt("captureWindowToFile")
  IN c > 0 =>
       /\ Count("captureWindowToFile") = 1
       /\ Len(log) >= c + 5
       /\ log[c + 1] = "activate"
       /\ log[c + 2] = "makeKeyAndOrderFront"
       /\ log[c + 3] = "displayIfNeeded"
       /\ log[c + 4] = "pumpRunLoop"
       /\ log[c + 5] \in CaptureAttempts
       /\ \A j \in 1..Len(log) : log[j] \in CaptureAttempts => j > c + 4

\* the snapshot returned no image and the view was rendered after the drain
C23_Witness ==
  /\ InLog("pumpRunLoop")
  /\ InLog("CGWindowListCreateImage")
  /\ InLog("displayRectIgnoringOpacity")
  /\ LastAt("pumpRunLoop") < LastAt("CGWindowListCreateImage")

\* C24: the bitmap source follows a strict fallback chain and the procedure
\* fails only at its end: the compositor snapshot when its symbol is there
\* and it returns an image, else the view's caching-display bitmap when
\* there is one, else a manually allocated bitmap. captureWindowToFile
\* returns false exactly when the window or the content view is null, or
\* when neither snapshot nor caching bitmap is there and the view's integer
\* width or height is <= 0 or the allocation fails; otherwise true.
C24_FallbackChain ==
  capArgs # << >> =>
    LET snapshot == capEnv.symbol /\ capEnv.image
        chainEnd == /\ ~snapshot
                    /\ ~capEnv.caching
                    /\ (capEnv.width <= 0 \/ capEnv.height <= 0 \/ ~capEnv.alloc)
        null == ~capArgs[1].window \/ ~capArgs[1].contentView
    IN /\ captured = ~(null \/ chainEnd)
       /\ captured =>
            bitmapSource = IF snapshot THEN "snapshot"
                           ELSE IF capEnv.caching THEN "caching"
                           ELSE "manual"
       /\ ~captured => (bitmapSource = "none" /\ outFile = outFileBefore)

\* no snapshot, no caching bitmap, and the manual bitmap was rendered
C24_Witness ==
  /\ capArgs # << >>
  /\ capArgs[1].window
  /\ capArgs[1].contentView
  /\ capEnv.symbol
  /\ ~capEnv.image
  /\ ~capEnv.caching
  /\ bitmapSource = "manual"
  /\ captured

\* the steps of captureWithLegacyHost as they appear in the call log
LegacySteps ==
  << "captureWithLegacyHost", "setPluginContext", "initialize",
     "setComponentHandler", "createView", "initWithContentRect", "setFrame",
     "attached", "getSize", "captureWindowToFile" >>

\* every legacy step that was made came after the step listed before it
LegacyStepOrder ==
  \A k \in 2..(Len(LegacySteps) - 1) :
    LastAt(LegacySteps[k]) > 0 =>
      /\ LastAt(LegacySteps[k - 1]) > 0
      /\ LastAt(LegacySteps[k - 1]) < LastAt(LegacySteps[k])

\* captureWithLegacyHost was entered and has not returned
InLegacyCall == pc = "legacyGuard" \/ InLegacyHost

\* none of the legacy steps after step k was made
NoStepAfter(k) ==
  \A i \in (k + 1)..Len(LegacySteps) : ~InLog(LegacySteps[i])

\* captureWithLegacyHost has returned false, its last step being step k
StoppedAt(k) ==
  /\ pc \in {"returned", "exit"}
  /\ ~result
  /\ NoStepAfter(k)

\* C25 as stated: the legacy steps are made in the listed order and the
\* plug-in context is set from the entry of captureWithLegacyHost to its
\* return.
C25_ContextFromEntryToReturn ==
  /\ LegacyStepOrder
  /\ InLegacyCall => pluginContext
  /\ Returned => ~pluginContext

\* C25: the legacy steps are made in the listed order (class selection, then
\* plug-in context set, provider initialization, component-handler
\* installation, editor-view creation, window creation, frame-handler
\* installation, view attachment, size query); the plug-in context is set
\* from the guard's construction, which follows module loading and class
\* selection, to the return of captureWithLegacyHost, and a call that fails
\* at module loading or class selection never sets it.
C25_LegacyStepOrder ==
  /\ LegacyStepOrder
  /\ pluginContext => chosenInfo # << >>
  /\ pc = "legacyGuard" => ~pluginContext /\ chosenInfo # << >>
  /\ InLegacyHost => pluginContext
  /\ (InLog("captureWithLegacyHost") /\ ~InLog("setPluginContext")) =>
       ~pluginContext
  /\ Returned => ~pluginContext

C25_Witness ==
  /\ pc = "legacyTeardown"
  /\ InLog("getSize")
  /\ pluginContext

\* each failure point of captureWithLegacyHost returns false with no later
\* step made
FailureStopsLegacyPath ==
  /\ (InLog("captureWithLegacyHost") /\ ~bundle.loadable) => StoppedAt(1)
  /\ ( /\ InLog("captureWithLegacyHost")
       /\ bundle.loadable
       /\ ~SelectFrom(bundle.classes, filter, 1).found ) => StoppedAt(1)
  /\ InLog("initFailed") => StoppedAt(3)
  /\ InLog("noController") => StoppedAt(3)
  /\ InLog("noEditorView") => StoppedAt(5) /\ legacyWindow = "none"

\* C26 as stated: each legacy failure point returns false with no later step,
\* and no native window is created and the capture procedure is not run
\* unless the editor view was obtained and attached successfully.
C26_NoWindowUnlessAttached ==
  /\ FailureStopsLegacyPath
  /\ legacyWindow # "none" =>
       InLog("createView") /\ ~InLog("noEditorView") /\ InLog("getSize")
  /\ (InLog("captureWithLegacyHost") /\ InLog("captureWindowToFile")) =>
       InLog("getSize")

\* C26: each legacy failure point (module not loadable, no matching
\* audio-effect class, provider initialization failed, no controller, no
\* editor view) returns false with no later step made; the native window is
\* created only once the editor view was obtained, before the attachment, so
\* a failed attachment returns false with the window created; the capture
\* procedure is run only after a successful attachment.
C26_FailureStopsLegacyPath ==
  /\ FailureStopsLegacyPath
  /\ legacyWindow # "none" => InLog("createView") /\ ~InLog("noEditorView")
  /\ InLog("attachFailed") =>
       /\ StoppedAt(8)
       /\ legacyWindow = "created"
       /\ LastAt("initWithContentRect") < LastAt("attached")
  /\ (InLog("captureWithLegacyHost") /\ InLog("captureWindowToFile")) =>
       InLog("getSize") /\ ~InLog("attachFailed")

C26_Witness ==
  /\ InLog("attachFailed")
  /\ legacyWindow = "created"
  /\ pc = "returned"
  /\ ~result

\* a step that is a resizeView call: the frame is installed, or stands over a
\* window that is gone, and stays so
ResizeViewStep ==
  /\ framePc \in {"attaching", "detached"}
  /\ framePc' = framePc

\* the size a ViewRect pointer asks for
SizeOf(rect) ==
  << rect[1].right - rect[1].left, rect[1].bottom - rect[1].top >>

\* what one resizeView call does, lastRect' being its argument
ResizeViewEnqueues ==
  ResizeViewStep =>
    /\ contentSize' = contentSize
    /\ applied' = applied
    /\ IF frameWindow /\ lastRect' # << >>
       THEN /\ mainQueue' = Append(mainQueue, SizeOf(lastRect'))
            /\ frameResult' = kResultTrue
       ELSE /\ mainQueue' = mainQueue
            /\ frameResult' = kResultFalse

\* queued resizes are neither dropped nor reordered, and they reach the
\* window only when the main thread runs its queue
AppliedInOrder ==
  /\ \/ applied' \o mainQueue' = applied \o mainQueue
     \/ /\ applied' = applied
        /\ Len(mainQueue') = Len(mainQueue) + 1
        /\ SubSeq(mainQueue', 1, Len(mainQueue)) = mainQueue
  /\ applied' # applied =>
       /\ framePc = "sized"
       /\ framePc' = "captured"
       /\ contentSize' = applied'[Len(applied')]
  /\ contentSize' # contentSize => framePc \in {"none", "attached", "sized"}

\* C27: resizeView never resizes the window itself: with a live window and a
\* non-null rectangle it appends exactly one resize to (right-left,
\* bottom-top) to the main queue and returns kResultTrue, otherwise it
\* appends nothing and returns kResultFalse; the queued resizes are applied
\* in the order of the requests and only when the main thread runs its queue.
C27_ResizeViewAsynchronous ==
  [][ResizeViewEnqueues /\ AppliedInOrder]_vars

C27_Witness ==
  /\ framePc = "captured"
  /\ frameResult = kResultTrue
  /\ Len(applied) = MaxResizes
  /\ applied[1] # applied[Len(applied)]
  /\ contentSize = applied[Len(applied)]

====
